---- MODULE Spec2Model ----
(***************************************************************************)
(* A model of src/app.py (lector_facturas): the Azure OCR call with its    *)
(* polling loop, the regular-expression field extraction of                *)
(* extract_invoice_data, display_invoice_data and the upload-to-export     *)
(* main flow of the Streamlit script.                                      *)
(*                                                                         *)
(* A Python str is a sequence of one-character strings; the patterns of    *)
(* extract_invoice_data are regular-expression syntax trees matched by a   *)
(* backtracking matcher that enumerates matches in the priority order of   *)
(* Python's re module (leftmost start, greedy quantifiers, alternatives    *)
(* left to right).                                                         *)
(***************************************************************************)
EXTENDS Integers, Sequences, FiniteSets, TLC

(***************************************************************************)
(* Characters and the str methods the code uses                            *)
(***************************************************************************)

\* The digits matched by \d.
Digits == {"0", "1", "2", "3", "4", "5", "6", "7", "8", "9"}

\* The characters matched by \s and removed by str.strip() / str.split().
Whitespace == {" ", "\t", "\n", "\r", "\f"}

UpperCase ==
  <<"A", "B", "C", "D", "E", "F", "G", "H", "I", "J", "K", "L", "M",
    "N", "O", "P", "Q", "R", "S", "T", "U", "V", "W", "X", "Y", "Z">>

LowerCase ==
  <<"a", "b", "c", "d", "e", "f", "g", "h", "i", "j", "k", "l", "m",
    "n", "o", "p", "q", "r", "s", "t", "u", "v", "w", "x", "y", "z">>

\* The character class A-Z.
UpperLetters == {UpperCase[k] : k \in 1..26}

\* Case folding of re.IGNORECASE: an upper-case letter is its lower-case one.
Fold(c) ==
  IF c \in UpperLetters
  THEN LowerCase[CHOOSE k \in 1..26 : UpperCase[k] = c]
  ELSE c

\* str.strip(): leading and trailing whitespace removed.
RECURSIVE LStrip(_)
LStrip(s) ==
  IF s # <<>> /\ Head(s) \in Whitespace THEN LStrip(Tail(s)) ELSE s

RECURSIVE RStrip(_)
RStrip(s) ==
  IF s # <<>> /\ s[Len(s)] \in Whitespace
  THEN RStrip(SubSeq(s, 1, Len(s) - 1))
  ELSE s

Strip(s) == RStrip(LStrip(s))

\* str.split(sep): the pieces between occurrences of the character sep
\* (n separators give n + 1 pieces, the empty ones included).
SplitOn(s, sep) ==
  LET IsSep(i) == s[i] = sep
      cuts == <<0>> \o SelectSeq([i \in 1..Len(s) |-> i], IsSep)
                    \o <<Len(s) + 1>>
  IN  [k \in 1..(Len(cuts) - 1) |-> SubSeq(s, cuts[k] + 1, cuts[k + 1] - 1)]

\* len(str.split()): the number of maximal runs of non-whitespace.
RECURSIVE CountTokens(_, _)
CountTokens(s, inTok) ==
  IF s = <<>> THEN 0
  ELSE IF Head(s) \in Whitespace THEN CountTokens(Tail(s), FALSE)
  ELSE (IF inTok THEN 0 ELSE 1) + CountTokens(Tail(s), TRUE)

(***************************************************************************)
(* Regular expressions: syntax trees and re.search                         *)
(***************************************************************************)

\* A character class; under re.IGNORECASE the class and the text are both
\* case-folded (re_search folds the text once).
Cls(cs) == [t |-> "set", cs |-> {Fold(c) : c \in cs}]

Cat(rs) == [t |-> "cat", rs |-> rs]

Alt(rs) == [t |-> "alt", rs |-> rs]

\* r{lo,hi}, greedy; hi = -1 is "no upper limit".
Rep(r, lo, hi) == [t |-> "rep", r |-> r, lo |-> lo, hi |-> hi]

Star(r) == Rep(r, 0, -1)

Plus(r) == Rep(r, 1, -1)

Opt(r) == Rep(r, 0, 1)

\* The capturing group (every pattern of the code has exactly one).
Grp(r) == [t |-> "grp", r |-> r]

\* A literal word.
Lit(w) == [t |-> "lit", w |-> [k \in 1..Len(w) |-> Fold(w[k])]]

NoGroup == <<>>

\* MatchAt(r, s, i): the ways r matches s from position i on, in the order
\* the backtracking matcher tries them; each is the position after the match
\* and the span <<first, last + 1>> of the group (NoGroup when not set).
RECURSIVE MatchAt(_, _, _)
RECURSIVE Continue(_, _, _, _)
\* For every match h of hs in order, the matches of r from h.e on.
Continue(hs, r, s, k) ==
  IF k > Len(hs) THEN <<>>
  ELSE LET h == hs[k]
           ts == MatchAt(r, s, h.e)
       IN  [j \in 1..Len(ts) |->
              [e |-> ts[j].e,
               g |-> IF ts[j].g # NoGroup THEN ts[j].g ELSE h.g]]
           \o Continue(hs, r, s, k + 1)

RECURSIVE Alternatives(_, _, _, _)
Alternatives(rs, s, i, k) ==
  IF k > Len(rs) THEN <<>>
  ELSE MatchAt(rs[k], s, i) \o Alternatives(rs, s, i, k + 1)

MatchAt(r, s, i) ==
  CASE r.t = "set" ->
         IF i <= Len(s) /\ s[i] \in r.cs
         THEN <<[e |-> i + 1, g |-> NoGroup]>>
         ELSE <<>>
    [] r.t = "lit" ->
         IF i + Len(r.w) - 1 <= Len(s) /\ SubSeq(s, i, i + Len(r.w) - 1) = r.w
         THEN <<[e |-> i + Len(r.w), g |-> NoGroup]>>
         ELSE <<>>
    [] r.t = "cat" ->
         IF r.rs = <<>> THEN <<[e |-> i, g |-> NoGroup]>>
         ELSE Continue(MatchAt(Head(r.rs), s, i), Cat(Tail(r.rs)), s, 1)
    [] r.t = "alt" -> Alternatives(r.rs, s, i, 1)
    [] r.t = "rep" ->
         LET once == IF r.hi = 0 THEN <<>> ELSE MatchAt(r.r, s, i)
             rest == Rep(r.r,
                         IF r.lo > 0 THEN r.lo - 1 ELSE 0,
                         IF r.hi > 0 THEN r.hi - 1 ELSE r.hi)
             more == Continue(once, rest, s, 1)
             none == IF r.lo = 0 THEN <<[e |-> i, g |-> NoGroup]>> ELSE <<>>
         IN  more \o none
    [] r.t = "grp" ->
         LET hs == MatchAt(r.r, s, i)
         IN  [k \in 1..Len(hs) |-> [e |-> hs[k].e, g |-> <<i, hs[k].e>>]]

\* The search of r in the case-folded text s among the start positions
\* lo..hi, tried from left to right (the lower half first): the first match
\* at the leftmost position that has one; found = FALSE is Python's None.
RECURSIVE SearchFrom(_, _, _, _)
SearchFrom(r, s, lo, hi) ==
  IF lo = hi
  THEN LET ms == MatchAt(r, s, lo)
       IN  IF ms # <<>>
           THEN [found |-> TRUE, start |-> lo, e |-> ms[1].e, g |-> ms[1].g]
           ELSE [found |-> FALSE]
  ELSE LET mid  == (lo + hi) \div 2
           left == SearchFrom(r, s, lo, mid)
       IN  IF left.found THEN left ELSE SearchFrom(r, s, mid + 1, hi)

\* re.search(r, s, re.IGNORECASE)
re_search(r, s) ==
  SearchFrom(r, [k \in 1..Len(s) |-> Fold(s[k])], 1, Len(s) + 1)

\* match.group(1)
group1(m, s) == SubSeq(s, m.g[1], m.g[2] - 1)

(***************************************************************************)
(* The pattern table of extract_invoice_data                               *)
(***************************************************************************)

\* \d
Digit == Cls(Digits)

\* \s
Space == Cls(Whitespace)

\* [:\s#]
LabelSepHash == Cls({":", "#"} \cup Whitespace)

\* [:\s]
LabelSep == Cls({":"} \cup Whitespace)

\* [A-Z0-9\-]
TokenChar == Cls(UpperLetters \cup Digits \cup {"-"})

\* [\/\-]
DateSep == Cls({"/", "-"})

\* [S\/\$]: ONE character out of S, / and $.
CurrencyChar == Cls({"S", "/", "$"})

\* (\d{1,2}[\/\-]\d{1,2}[\/\-]\d{2,4})
DateGroup ==
  Grp(Cat(<<Rep(Digit, 1, 2), DateSep, Rep(Digit, 1, 2), DateSep,
            Rep(Digit, 2, 4)>>))

\* [:\s]*[S\/\$]?\s*(\d{1,3}(?:,\d{3})*\.?\d{0,2})
AmountTail ==
  <<Star(LabelSep), Opt(CurrencyChar), Star(Space),
    Grp(Cat(<<Rep(Digit, 1, 3),
              Star(Cat(<<Cls({","}), Rep(Digit, 3, 3)>>)),
              Opt(Cls({"."})),
              Rep(Digit, 0, 2)>>))>>

\* r"(?:factura|invoice|n[úu]mero?)[:\s#]*([A-Z0-9\-]+)"
numero_factura_1 ==
  Cat(<<Alt(<<Lit(<<"f", "a", "c", "t", "u", "r", "a">>), Lit(<<"i", "n", "v", "o", "i", "c", "e">>),
              Cat(<<Lit(<<"n">>), Cls({"ú", "u"}), Lit(<<"m", "e", "r">>), Opt(Lit(<<"o">>))>>)>>),
        Star(LabelSepHash), Grp(Plus(TokenChar))>>)

\* r"(?:fact|fac)[:\s#]*([A-Z0-9\-]+)"
numero_factura_2 ==
  Cat(<<Alt(<<Lit(<<"f", "a", "c", "t">>), Lit(<<"f", "a", "c">>)>>),
        Star(LabelSepHash), Grp(Plus(TokenChar))>>)

\* r"(?:serie|no\.?)[:\s]*([A-Z0-9\-]+)"
numero_factura_3 ==
  Cat(<<Alt(<<Lit(<<"s", "e", "r", "i", "e">>), Cat(<<Lit(<<"n", "o">>), Opt(Cls({"."}))>>)>>),
        Star(LabelSep), Grp(Plus(TokenChar))>>)

\* r"(?:fecha|date)[:\s]*(\d{1,2}[\/\-]\d{1,2}[\/\-]\d{2,4})"
fecha_1 ==
  Cat(<<Alt(<<Lit(<<"f", "e", "c", "h", "a">>), Lit(<<"d", "a", "t", "e">>)>>), Star(LabelSep), DateGroup>>)

\* r"(\d{1,2}[\/\-]\d{1,2}[\/\-]\d{2,4})"
fecha_2 == DateGroup

\* r"(?:ruc|nit|tax\s*id)[:\s]*(\d{10,15})"
ruc_nit_1 ==
  Cat(<<Alt(<<Lit(<<"r", "u", "c">>), Lit(<<"n", "i", "t">>),
              Cat(<<Lit(<<"t", "a", "x">>), Star(Space), Lit(<<"i", "d">>)>>)>>),
        Star(LabelSep), Grp(Rep(Digit, 10, 15))>>)

\* r"(\d{11})"
ruc_nit_2 == Grp(Rep(Digit, 11, 11))

\* r"(?:total|amount)[:\s]*[S\/\$]?\s*(\d{1,3}(?:,\d{3})*\.?\d{0,2})"
total_1 ==
  Cat(<<Alt(<<Lit(<<"t", "o", "t", "a", "l">>), Lit(<<"a", "m", "o", "u", "n", "t">>)>>)>> \o AmountTail)

\* r"(?:total\s*general|grand\s*total)[:\s]*[S\/\$]?\s*(\d{1,3}(?:,\d{3})*\.?\d{0,2})"
total_2 ==
  Cat(<<Alt(<<Cat(<<Lit(<<"t", "o", "t", "a", "l">>), Star(Space), Lit(<<"g", "e", "n", "e", "r", "a", "l">>)>>),
              Cat(<<Lit(<<"g", "r", "a", "n", "d">>), Star(Space), Lit(<<"t", "o", "t", "a", "l">>)>>)>>)>>
      \o AmountTail)

\* r"(?:subtotal|sub\s*total)[:\s]*[S\/\$]?\s*(\d{1,3}(?:,\d{3})*\.?\d{0,2})"
subtotal_1 ==
  Cat(<<Alt(<<Lit(<<"s", "u", "b", "t", "o", "t", "a", "l">>),
              Cat(<<Lit(<<"s", "u", "b">>), Star(Space), Lit(<<"t", "o", "t", "a", "l">>)>>)>>)>>
      \o AmountTail)

\* r"(?:igv|iva|tax)[:\s]*[S\/\$]?\s*(\d{1,3}(?:,\d{3})*\.?\d{0,2})"
igv_iva_1 ==
  Cat(<<Alt(<<Lit(<<"i", "g", "v">>), Lit(<<"i", "v", "a">>), Lit(<<"t", "a", "x">>)>>)>> \o AmountTail)

\* The scalar fields in the order of the patterns dict.
PatternFields ==
  <<"numero_factura", "fecha", "ruc_nit", "total", "subtotal", "igv_iva">>

\* patterns[field]: the field's patterns in the order they are tried.
patterns ==
  [numero_factura |-> <<numero_factura_1, numero_factura_2, numero_factura_3>>,
   fecha          |-> <<fecha_1, fecha_2>>,
   ruc_nit        |-> <<ruc_nit_1, ruc_nit_2>>,
   total          |-> <<total_1, total_2>>,
   subtotal       |-> <<subtotal_1>>,
   igv_iva        |-> <<igv_iva_1>>]

\* r'\d' (the digit test of the company heuristic)
AnyDigit == Digit

\* r'\d+[\.\,]\d{2}' (the price test of the item heuristic)
PricePattern == Cat(<<Plus(Digit), Cls({".", ","}), Rep(Digit, 2, 2)>>)

(***************************************************************************)
(* Python values                                                           *)
(***************************************************************************)

\* None
PyNone == [none |-> TRUE]

\* A dict of the OCR service: its keys and, under "readResults", the pages.
PyDict(keys, pages) == [none |-> FALSE, keys |-> keys, readResults |-> pages]

\* {}: the dict without keys (a function whose domain is empty).
EmptyDict == <<>>

\* bool(v) of None or a dict.
Truthy(v) == ~v.none /\ v.keys # {}

\* One page of readResults, of the given line texts.
Page(texts) == [lines |-> [k \in 1..Len(texts) |-> [text |-> texts[k]]]]

(***************************************************************************)
(* extract_invoice_data                                                    *)
(***************************************************************************)

\* for line in page["lines"]: full_text += line["text"] + "\n"
RECURSIVE PageText(_, _)
PageText(lines, k) ==
  IF k > Len(lines) THEN <<>>
  ELSE lines[k].text \o <<"\n">> \o PageText(lines, k + 1)

\* for page in ocr_result["readResults"]: ...
RECURSIVE ConcatText(_, _)
ConcatText(pages, k) ==
  IF k > Len(pages) THEN <<>>
  ELSE PageText(pages[k].lines, 1) \o ConcatText(pages, k + 1)

\* The record extract_invoice_data starts from: "" and [] are both <<>>.
EmptyInvoice ==
  [numero_factura |-> <<>>, fecha |-> <<>>, empresa |-> <<>>,
   ruc_nit |-> <<>>, cliente |-> <<>>, total |-> <<>>, subtotal |-> <<>>,
   igv_iva |-> <<>>, items |-> <<>>]

\* SearchField without the break and the emptiness test: the last pattern
\* that matches wins.
RECURSIVE SearchFieldLast(_, _, _, _)
SearchFieldLast(field_patterns, full_text, cur, k) ==
  IF k > Len(field_patterns) THEN cur
  ELSE LET match == re_search(field_patterns[k], full_text)
       IN  SearchFieldLast(field_patterns, full_text,
                           IF match.found
                           THEN Strip(group1(match, full_text))
                           ELSE cur,
                           k + 1)

\* for pattern in field_patterns: the value of the field after the loop,
\* from its value cur before it, patterns k.. still to try.
RECURSIVE SearchField(_, _, _, _)
SearchField(field_patterns, full_text, cur, k) ==
  IF k > Len(field_patterns) THEN cur
  ELSE LET match == re_search(field_patterns[k], full_text)
       IN  IF match.found /\ cur = <<>>
           THEN Strip(group1(match, full_text))       \* ... and break
           ELSE SearchField(field_patterns, full_text, cur, k + 1)

\* for field, field_patterns in patterns.items(): ...
RECURSIVE SearchFields(_, _, _)
SearchFields(data, full_text, f) ==
  IF f > Len(PatternFields) THEN data
  ELSE LET field == PatternFields[f]
       IN  SearchFields(
             [data EXCEPT ![field] =
                SearchField(patterns[field], full_text, data[field], 1)],
             full_text, f + 1)

\* The number of leading lines the company heuristic looks at: lines[:5].
CompanyScan == 5

\* Slice without the limit: every line.
SliceAll(lines, n) == lines

\* lines[:n]
Slice(lines, n) == SubSeq(lines, 1, IF Len(lines) < n THEN Len(lines) ELSE n)

\* for i, line in enumerate(lines[:5]): the first line that is long enough
\* and has no digit, stripped; cur when there is none.
RECURSIVE FindCompany(_, _, _)
FindCompany(head, cur, k) ==
  IF k > Len(head) THEN cur
  ELSE IF Len(Strip(head[k])) > 5 /\ ~re_search(AnyDigit, head[k]).found
       THEN Strip(head[k])                             \* ... and break
       ELSE FindCompany(head, cur, k + 1)

\* The condition under which a line is appended to items.
IsItemLine(line) ==
  re_search(PricePattern, line).found /\ CountTokens(line, FALSE) >= 3

\* CollectItems that stops at 5 items, as the display does.
RECURSIVE CollectItemsCapped(_, _, _)
CollectItemsCapped(lines, acc, k) ==
  IF k > Len(lines) \/ Len(acc) >= 5 THEN acc
  ELSE CollectItemsCapped(lines,
                          IF IsItemLine(lines[k])
                          THEN Append(acc, Strip(lines[k]))
                          ELSE acc,
                          k + 1)

\* for line in lines: ... invoice_data["items"].append(line.strip())
RECURSIVE CollectItems(_, _, _)
CollectItems(lines, acc, k) ==
  IF k > Len(lines) THEN acc
  ELSE CollectItems(lines,
                    IF IsItemLine(lines[k])
                    THEN Append(acc, Strip(lines[k]))
                    ELSE acc,
                    k + 1)

\* The guard written as: if not ocr_result or not ocr_result.get("readResults")
NothingToReadOrNoPage(ocr_result) ==
  \/ ~Truthy(ocr_result)
  \/ "readResults" \notin ocr_result.keys
  \/ ocr_result.readResults = <<>>

\* if not ocr_result or "readResults" not in ocr_result
NothingToRead(ocr_result) ==
  ~Truthy(ocr_result) \/ "readResults" \notin ocr_result.keys

\* What extract_invoice_data returns: {} on the guard, else the pair
\* (invoice_data, full_text).
extract_invoice_data(ocr_result) ==
  IF NothingToRead(ocr_result)
  THEN [kind |-> "dict", dict |-> EmptyDict]
  ELSE LET full_text == ConcatText(ocr_result.readResults, 1)
           searched  == SearchFields(EmptyInvoice, full_text, 1)
           lines     == SplitOn(full_text, "\n")
           named     == [searched EXCEPT !.empresa =
                           FindCompany(Slice(lines, CompanyScan),
                                       searched.empresa, 1)]
           invoice_data ==
             [named EXCEPT !.items = CollectItems(lines, named.items, 1)]
       IN  [kind |-> "tuple", elems |-> <<invoice_data, full_text>>]

(***************************************************************************)
(* The recognized documents the model draws from                           *)
(***************************************************************************)

\* The longest document built from ScalarLines, CompanyLines or ItemLines.
MaxShortLines == 2

\* The longest document built from LongLines (more lines than the company
\* heuristic scans and than display_invoice_data shows).
MaxLongLines == 6

\* The most lines on each page of a two-page document.
MaxPageLines == 1

\* Lines with the labels and tokens the patterns look for.
ScalarLines ==
  { <<"A", "C", "M", "E", " ", "C", "O", "R", "P">>,
    <<"F", "a", "c", "t", "u", "r", "a", ":", " ", "A", "-", "0", "0", "1", "2", "3">>,
    <<"S", "e", "r", "i", "e", ":", " ", "B", "-", "7", "7">>,
    <<"F", "e", "c", "h", "a", ":", " ", "1", "2", "/", "0", "5", "/", "2", "0", "2", "4">>,
    <<"V", "e", "n", "c", "e", " ", "0", "1", "-", "0", "6", "-", "2", "4">>,
    <<"R", "U", "C", ":", " ", "1", "2", "3", "4", "5", "6", "7", "8", "9", "0", "1">>,
    <<"T", "e", "l", " ", "9", "8", "7", "6", "5", "4", "3", "2", "1", "0", "1">>,
    <<"C", "u", "e", "n", "t", "a", " ", "1", "2", "3", "4", "5", "6", "7", "8", "9", "0", "1", "2", "3", "4", "5">>,
    <<"T", "o", "t", "a", "l", ":", " ", "S", "/", " ", "1", ",", "2", "3", "4", ".", "5", "6">>,
    <<"T", "o", "t", "a", "l", ":", " ", "$", " ", "5", "0", ".", "0", "0">>,
    <<"S", "u", "b", "t", "o", "t", "a", "l", ":", " ", "1", ",", "0", "0", "0", ".", "0", "0">>,
    <<"T", "o", "t", "a", "l", " ", "G", "e", "n", "e", "r", "a", "l", ":", " ", "9", "0", "0", ".", "0", "0">>,
    <<"I", "G", "V", ":", " ", "1", "8", "0", ".", "0", "0">> }

\* Lines for the company heuristic: with and without digits, longer and
\* shorter than 5 characters once stripped.
CompanyLines ==
  { <<"A", "C", "M", "E", " ", "C", "O", "R", "P">>,
    <<" ", " ", "L", "i", "m", "a", " ", "P", "e", "r", "u", " ", " ">>,
    <<" ", " ", "S", "A", "C", " ", " ">>,
    <<"A", "v", ".", " ", "S", "o", "l", " ", "1", "2", "3">> }

\* Lines for the item heuristic: with and without a price, with fewer and
\* more than 3 tokens.
ItemLines ==
  { <<"W", "i", "d", "g", "e", "t", " ", "A", " ", " ", "2", " ", " ", "1", "9", ".", "9", "9">>,
    <<" ", "C", "a", "b", "l", "e", " ", "3", " ", "5", ",", "0", "0", " ">>,
    <<"S", "a", "l", "d", "o", " ", "1", "9", ".", "9", "9">>,
    <<"P", "h", "o", "n", "e", ":", " ", "1", "2", "3">>,
    <<"C", "a", "l", "l", "e", " ", "1", "2", " ", "L", "i", "m", "a">> }

LongLines ==
  { <<"A", "C", "M", "E", " ", "C", "O", "R", "P">>,
    <<"W", "i", "d", "g", "e", "t", " ", "A", " ", " ", "2", " ", " ", "1", "9", ".", "9", "9">> }

\* The sequences of at most n lines of a catalogue.
Texts(n, catalogue) == UNION {[1..k -> catalogue] : k \in 0..n}

\* Documents of one page.
OnePage ==
  {<<Page(ls)>> :
     ls \in Texts(MaxShortLines, ScalarLines)
            \cup Texts(MaxShortLines, CompanyLines)
            \cup Texts(MaxShortLines, ItemLines)
            \cup Texts(MaxLongLines, LongLines)}

\* Documents of two pages (either may be empty).
TwoPages ==
  {<<Page(a), Page(b)>> :
     a \in Texts(MaxPageLines, ItemLines),
     b \in Texts(MaxPageLines, ItemLines)}

\* analyzeResult values with recognized text.
Documents ==
  {PyDict({"version", "readResults"}, pages) : pages \in OnePage \cup TwoPages}

\* None, {}, a dict without "readResults", a dict without pages.
Degenerate ==
  {PyNone, PyDict({}, <<>>), PyDict({"version"}, <<>>),
   PyDict({"version", "readResults"}, <<>>)}

ExtractInputs == Degenerate \cup Documents

(***************************************************************************)
(* State                                                                   *)
(***************************************************************************)

VARIABLES
  pc,             \* where the script (or the call under test) stands
  credentials,    \* AZURE_ENDPOINT and AZURE_API_KEY are both set
  uploaded_file,  \* what st.file_uploader holds
  img_byte_arr,   \* the PNG bytes, or None
  start,          \* the outcome of the POST that starts the analysis
  result,         \* the outcome of the last GET of the polling loop
  polls,          \* how many GETs of the running loop were answered with an
                  \* unfinished status (0 outside the loop)
  ocr_result,     \* the argument of extract_invoice_data
  ret,            \* what extract_invoice_data returned
  invoice_data,   \* the main flow's invoice_data
  full_text,      \* the main flow's full_text
  messages,       \* the st.error / st.success boxes shown, in order
  shown,          \* what display_invoice_data wrote: items and table
  json_data,      \* the data of the download button
  exception       \* the exception that ended the script, if any

vars ==
  <<pc, credentials, uploaded_file, img_byte_arr, start, result, polls,
    ocr_result, ret, invoice_data, full_text, messages, shown,
    json_data, exception>>

\* A local that is not assigned yet.
Unset == [unset |-> TRUE]

\* The state before anything ran, apart from pc, credentials and ocr_result.
Fresh ==
  /\ uploaded_file = "None"
  /\ img_byte_arr = "unset"
  /\ start = "unset"
  /\ result = Unset
  /\ polls = 0
  /\ ret = Unset
  /\ invoice_data = Unset
  /\ full_text = Unset
  /\ messages = <<>>
  /\ shown = Unset
  /\ json_data = Unset
  /\ exception = "none"

(***************************************************************************)
(* extract_invoice_data called on its own                                  *)
(***************************************************************************)

InitExtract ==
  /\ pc = "extract_call"
  /\ credentials = TRUE
  /\ ocr_result \in ExtractInputs
  /\ Fresh

\* ret = extract_invoice_data(ocr_result)
CallExtract ==
  /\ pc = "extract_call"
  /\ ret' = extract_invoice_data(ocr_result)
  /\ pc' = "extract_done"
  /\ UNCHANGED <<credentials, uploaded_file, img_byte_arr, start, result,
                 polls, ocr_result, invoice_data, full_text, messages,
                 shown, json_data, exception>>

NextExtract == CallExtract

SpecExtract == InitExtract /\ [][NextExtract]_vars

(***************************************************************************)
(* The Streamlit script: upload, OCR, extraction, display, export          *)
(***************************************************************************)

\* The largest count of unfinished answers the model tells apart; polls
\* stays there while the loop goes on.
MaxPolls == 3

Error(text) == [level |-> "error", text |-> text]

Success(text) == [level |-> "success", text |-> text]

\* What the OCR service can answer to the POST: a network or HTTP error
\* (a RequestException), 202 with or without the Operation-Location header.
StartOutcomes == {"raised", "accepted", "no_header"}

\* analyzeResult values of a finished analysis: documents, and objects that
\* are empty, lack "readResults" or have no page.
AnalyzeResults ==
  Documents \cup
  {PyDict({}, <<>>), PyDict({"version"}, <<>>),
   PyDict({"version", "readResults"}, <<>>)}

\* What the OCR service can answer to a GET of the operation: a network or
\* HTTP error, or a JSON object with or without "status" and "analyzeResult".
Raised == [raised |-> TRUE, keys |-> {}, status |-> "", analyzeResult |-> PyNone]

Json(keys, status, analyzeResult) ==
  [raised |-> FALSE, keys |-> keys, status |-> status,
   analyzeResult |-> analyzeResult]

PollOutcomes ==
  {Raised, Json({}, "", PyNone)} \cup
  {Json({"status"}, st, PyNone) :
     st \in {"notStarted", "running", "failed", "succeeded"}} \cup
  {Json({"status", "analyzeResult"}, "succeeded", a) : a \in AnalyzeResults}

Init ==
  /\ pc = "idle"
  /\ credentials \in BOOLEAN
  /\ ocr_result = PyNone
  /\ Fresh

\* The user picks a file in st.file_uploader: an image PIL can open, or a
\* file it cannot (a PDF, a damaged file).
Upload(f) ==
  /\ pc = "idle"
  /\ uploaded_file' = f
  /\ pc' = "uploaded"
  /\ UNCHANGED <<credentials, img_byte_arr, start, result, polls, ocr_result,
                 ret, invoice_data, full_text, messages, shown, json_data,
                 exception>>

\* try: Image.open ... image.save ... except Exception: st.error(...)
OpenImage ==
  /\ pc = "uploaded"
  /\ IF uploaded_file = "image"
     THEN /\ img_byte_arr' = "bytes"
          /\ messages' = messages
          /\ pc' = "ready"
     ELSE /\ img_byte_arr' = "None"
          /\ messages' = Append(messages, Error("Error al procesar imagen"))
          /\ pc' = "done"
  /\ UNCHANGED <<credentials, uploaded_file, start, result, polls, ocr_result,
                 ret, invoice_data, full_text, shown, json_data, exception>>

\* The button is clicked: extract_text_from_image is entered and checks the
\* credentials.
ClickExtract ==
  /\ pc = "ready"
  /\ img_byte_arr = "bytes"
  /\ IF ~credentials
     THEN /\ messages' =
               Append(messages, Error("Credenciales de Azure no configuradas"))
          /\ ocr_result' = PyNone
          /\ pc' = "returned"
     ELSE /\ messages' = messages
          /\ ocr_result' = ocr_result
          /\ pc' = "post"
  /\ UNCHANGED <<credentials, uploaded_file, img_byte_arr, start, result,
                 polls, ret, invoice_data, full_text, shown, json_data,
                 exception>>

\* requests.post, raise_for_status, response.headers["Operation-Location"]
StartAnalysis(answer) ==
  /\ pc = "post"
  /\ start' = answer
  /\ CASE answer = "raised" ->
            /\ messages' = Append(messages, Error("Error al procesar imagen"))
            /\ ocr_result' = PyNone
            /\ exception' = exception
            /\ pc' = "returned"
       [] answer = "no_header" ->
            /\ exception' = "KeyError"
            /\ pc' = "crashed"
            /\ UNCHANGED <<messages, ocr_result>>
       [] answer = "accepted" ->
            /\ pc' = "poll"
            /\ UNCHANGED <<messages, ocr_result, exception>>
  /\ UNCHANGED <<credentials, uploaded_file, img_byte_arr, result, polls, ret,
                 invoice_data, full_text, shown, json_data>>

\* KeepsPolling with a limit of 2 unfinished answers.
KeepsPollingBounded(answer, seen) ==
  answer.status \notin {"succeeded", "failed"} /\ seen < 2

\* Whether a GET's answer ends the polling loop: a status that is neither
\* "succeeded" nor "failed" never does, however many were seen.
KeepsPolling(answer, seen) == answer.status \notin {"succeeded", "failed"}

\* One turn of the while loop: time.sleep(1), requests.get, raise_for_status,
\* result["status"], and on "succeeded" the return of result["analyzeResult"].
Poll(answer) ==
  /\ pc = "poll"
  /\ result' = answer
  /\ IF answer.raised
     THEN /\ messages' = Append(messages, Error("Error al procesar imagen"))
          /\ ocr_result' = PyNone
          /\ pc' = "returned"
          /\ polls' = 0
          /\ UNCHANGED exception
     ELSE IF "status" \notin answer.keys
     THEN /\ exception' = "KeyError"
          /\ pc' = "crashed"
          /\ UNCHANGED <<messages, ocr_result, polls>>
     ELSE IF KeepsPolling(answer, polls)
     THEN /\ polls' = IF polls < MaxPolls THEN polls + 1 ELSE polls
          /\ pc' = "poll"
          /\ UNCHANGED <<messages, ocr_result, exception>>
     ELSE IF answer.status = "succeeded"
     THEN IF "analyzeResult" \in answer.keys
          THEN /\ ocr_result' = answer.analyzeResult
               /\ pc' = "returned"
               /\ polls' = 0
               /\ UNCHANGED <<messages, exception>>
          ELSE /\ exception' = "KeyError"
               /\ pc' = "crashed"
               /\ UNCHANGED <<messages, ocr_result, polls>>
     ELSE /\ messages' = Append(messages, Error("Error en el analisis OCR"))
          /\ ocr_result' = PyNone
          /\ pc' = "returned"
          /\ polls' = 0
          /\ UNCHANGED exception
  /\ UNCHANGED <<credentials, uploaded_file, img_byte_arr, start, ret,
                 invoice_data, full_text, shown, json_data>>

\* a, b = value: a pair unpacks; a dict unpacks into its keys, and raises
\* ValueError unless it has exactly two.
CanUnpack2(value) ==
  IF value.kind = "tuple"
  THEN Len(value.elems) = 2
  ELSE Cardinality(DOMAIN value.dict) = 2

\* if ocr_result: invoice_data, full_text = extract_invoice_data(ocr_result);
\* st.success(...)
ProcessResult ==
  /\ pc = "returned"
  /\ IF Truthy(ocr_result)
     THEN /\ ret' = extract_invoice_data(ocr_result)
          /\ IF CanUnpack2(ret')
             THEN /\ invoice_data' = ret'.elems[1]
                  /\ full_text' = ret'.elems[2]
                  /\ messages' =
                       Append(messages, Success("Datos extraidos exitosamente"))
                  /\ pc' = "display"
                  /\ exception' = exception
             ELSE /\ exception' = "ValueError"
                  /\ pc' = "crashed"
                  /\ UNCHANGED <<invoice_data, full_text, messages>>
     ELSE /\ pc' = "done"
          /\ UNCHANGED <<ret, invoice_data, full_text, messages, exception>>
  /\ UNCHANGED <<credentials, uploaded_file, img_byte_arr, start, result,
                 polls, ocr_result, shown, json_data>>

\* The keys of invoice_data in the order of the dict.
FieldOrder ==
  <<"numero_factura", "fecha", "empresa", "ruc_nit", "cliente", "total",
    "subtotal", "igv_iva", "items">>

\* key.replace("_", " ").title() of each key shown in the summary table.
FieldTitle ==
  [numero_factura |-> "Numero Factura", fecha |-> "Fecha",
   empresa |-> "Empresa", ruc_nit |-> "Ruc Nit", cliente |-> "Cliente",
   total |-> "Total", subtotal |-> "Subtotal", igv_iva |-> "Igv Iva"]

\* The number of items display_invoice_data writes: items[:5].
DisplayItems == 5

\* data_summary: a row for every key but "items" whose value is not empty.
RECURSIVE SummaryRows(_, _)
SummaryRows(data, k) ==
  IF k > Len(FieldOrder) THEN <<>>
  ELSE LET key == FieldOrder[k]
       IN  (IF key # "items" /\ data[key] # <<>>
            THEN <<[Campo |-> FieldTitle[key], Valor |-> data[key]]>>
            ELSE <<>>)
           \o SummaryRows(data, k + 1)

\* Display that cuts the record's own items to the 5 it shows.
DisplayTruncating ==
  /\ pc = "display"
  /\ shown' = [items |-> Slice(invoice_data.items, DisplayItems),
               table |-> SummaryRows(invoice_data, 1),
               text  |-> full_text]
  /\ invoice_data' =
       [invoice_data EXCEPT !.items = Slice(invoice_data.items, DisplayItems)]
  /\ pc' = "export"
  /\ UNCHANGED <<credentials, uploaded_file, img_byte_arr, start, result,
                 polls, ocr_result, ret, full_text, messages, json_data,
                 exception>>

\* display_invoice_data(invoice_data, full_text): it reads the record and
\* writes widgets; the record is not assigned to.
Display ==
  /\ pc = "display"
  /\ shown' = [items |-> Slice(invoice_data.items, DisplayItems),
               table |-> SummaryRows(invoice_data, 1),
               text  |-> full_text]
  /\ pc' = "export"
  /\ UNCHANGED <<credentials, uploaded_file, img_byte_arr, start, result,
                 polls, ocr_result, ret, invoice_data, full_text, messages,
                 json_data, exception>>

\* json.dumps(invoice_data, indent = 2, ensure_ascii = False): the members
\* of the object in the order of the dict, every character kept.
json_dumps(data) ==
  [k \in 1..Len(FieldOrder) |->
     [key |-> FieldOrder[k], value |-> data[FieldOrder[k]]]]

\* if invoice_data: json_data = json.dumps(...); st.download_button(...)
Export ==
  /\ pc = "export"
  /\ json_data' = IF DOMAIN invoice_data # {}
                  THEN json_dumps(invoice_data)
                  ELSE json_data
  /\ pc' = "done"
  /\ UNCHANGED <<credentials, uploaded_file, img_byte_arr, start, result,
                 polls, ocr_result, ret, invoice_data, full_text, messages,
                 shown, exception>>

Next ==
  \/ \E f \in {"image", "unreadable"} : Upload(f)
  \/ OpenImage
  \/ ClickExtract
  \/ \E answer \in StartOutcomes : StartAnalysis(answer)
  \/ \E answer \in PollOutcomes : Poll(answer)
  \/ ProcessResult
  \/ Display
  \/ Export

Spec == Init /\ [][Next]_vars

(***************************************************************************)
(* Properties of extract_invoice_data (under SpecExtract)                  *)
(***************************************************************************)

FieldNames == {FieldOrder[k] : k \in 1..Len(FieldOrder)}

\* The call returned the pair (invoice_data, full_text).
Extracted == pc = "extract_done" /\ ret.kind = "tuple"

\* The texts of the recognized lines, page after page.
RECURSIVE InputLines(_, _)
InputLines(pages, k) ==
  IF k > Len(pages) THEN <<>>
  ELSE [j \in 1..Len(pages[k].lines) |-> pages[k].lines[j].text]
       \o InputLines(pages, k + 1)

\* w occurs in s.
Contains(s, w) ==
  \E i \in 1..(Len(s) - Len(w) + 1) : SubSeq(s, i, i + Len(w) - 1) = w

FoldText(s) == [k \in 1..Len(s) |-> Fold(s[k])]

\* C1: whatever the input (None, {}, a dict without "readResults", any
\* pages of lines), the value returned is a record with all nine fields.
C1_WellFormedRecord ==
  pc = "extract_done" =>
    DOMAIN (IF ret.kind = "tuple" THEN ret.elems[1] ELSE ret.dict) = FieldNames

\* C2: a text that contains "Total: S/ 1,234.56" and neither "total general"
\* nor "grand total" gives total = "1,234.56".
C2_TotalExample ==
  Extracted
  /\ Contains(ret.elems[2], <<"T", "o", "t", "a", "l", ":", " ", "S", "/", " ", "1", ",", "2", "3", "4", ".", "5", "6">>)
  /\ ~Contains(FoldText(ret.elems[2]), <<"t", "o", "t", "a", "l", " ", "g", "e", "n", "e", "r", "a", "l">>)
  /\ ~Contains(FoldText(ret.elems[2]), <<"g", "r", "a", "n", "d", " ", "t", "o", "t", "a", "l">>)
  => ret.elems[1].total = <<"1", ",", "2", "3", "4", ".", "5", "6">>

\* C3: every scalar field is the stripped group of the lowest-numbered
\* pattern of its list that matches the full text, and empty when none does.
C3_FirstMatchWins ==
  Extracted =>
    \A f \in {PatternFields[k] : k \in 1..Len(PatternFields)} :
      LET text == ret.elems[2]
          hits == {k \in 1..Len(patterns[f]) :
                     re_search(patterns[f][k], text).found}
      IN  ret.elems[1][f] =
            IF hits = {} THEN <<>>
            ELSE LET k == CHOOSE k \in hits : \A j \in hits : k <= j
                 IN  Strip(group1(re_search(patterns[f][k], text), text))

\* A "factura:" and a "serie:" pattern both match, with different groups,
\* and numero_factura is the "factura:" one.
C3_Witness ==
  /\ Extracted
  /\ re_search(numero_factura_1, ret.elems[2]).found
  /\ re_search(numero_factura_3, ret.elems[2]).found
  /\ group1(re_search(numero_factura_3, ret.elems[2]), ret.elems[2]) = <<"B", "-", "7", "7">>
  /\ ret.elems[1].numero_factura = <<"A", "-", "0", "0", "1", "2", "3">>

\* A line the company heuristic accepts: more than 5 characters once
\* stripped, and no digit.
C4_Qualifies(line) ==
  Len(Strip(line)) > 5 /\ \A i \in 1..Len(line) : line[i] \notin Digits

\* C4: empresa is the stripped first qualifying line among the first 5
\* recognized lines, and empty when none of them qualifies.
C4_CompanyFirstOfFive ==
  Extracted =>
    LET ls == InputLines(ocr_result.readResults, 1)
        n  == IF Len(ls) < 5 THEN Len(ls) ELSE 5
        q  == {k \in 1..n : C4_Qualifies(ls[k])}
    IN  ret.elems[1].empresa =
          IF q = {} THEN <<>>
          ELSE Strip(ls[CHOOSE k \in q : \A j \in q : k <= j])

\* None of the first 5 lines qualifies, the sixth does, and empresa is empty.
C4_Witness ==
  /\ Extracted
  /\ LET ls == InputLines(ocr_result.readResults, 1)
     IN  /\ Len(ls) > 5
         /\ \A k \in 1..5 : ~C4_Qualifies(ls[k])
         /\ C4_Qualifies(ls[6])
  /\ ret.elems[1].empresa = <<>>

\* A line the item heuristic accepts: a digit, '.' or ',', two digits
\* somewhere in it, and 3 or more whitespace-separated tokens.
C5_Qualifies(line) ==
  /\ \E p \in 1..(Len(line) - 3) :
       /\ line[p] \in Digits
       /\ line[p + 1] \in {".", ","}
       /\ line[p + 2] \in Digits
       /\ line[p + 3] \in Digits
  /\ Cardinality({i \in 1..Len(line) :
                    /\ line[i] \notin Whitespace
                    /\ (i = 1 \/ line[i - 1] \in Whitespace)}) >= 3

\* C5: items holds, in source order, the (stripped) text of every
\* qualifying line of the document and of no other line.
C5_ItemsExactlyQualifying ==
  Extracted =>
    LET sel == SelectSeq(InputLines(ocr_result.readResults, 1), C5_Qualifies)
    IN  ret.elems[1].items = [k \in 1..Len(sel) |-> Strip(sel[k])]

\* More than 5 items, two of them equal, all kept.
C5_Witness ==
  /\ Extracted
  /\ Len(ret.elems[1].items) > 5
  /\ ret.elems[1].items[1] = ret.elems[1].items[2]

\* The input is a dict with "readResults" and not a single line.
C7_NoLines(v) ==
  /\ ~v.none
  /\ "readResults" \in v.keys
  /\ \A k \in 1..Len(v.readResults) : v.readResults[k].lines = <<>>

\* C7: without any line the call returns the pair of a record whose fields
\* are all empty and the empty text.
C7_EmptyText ==
  pc = "extract_done" /\ C7_NoLines(ocr_result) =>
    /\ ret.kind = "tuple"
    /\ DOMAIN ret.elems[1] = FieldNames
    /\ \A f \in FieldNames : ret.elems[1][f] = <<>>
    /\ ret.elems[2] = <<>>

\* The call returned for a document without pages.
C7_Witness ==
  /\ pc = "extract_done"
  /\ C7_NoLines(ocr_result)
  /\ ocr_result.readResults = <<>>
  /\ ret.kind = "tuple"

\* The maximal runs of digits of s, as <<first, last>>.
C8_Tokens(s) ==
  {t \in (1..Len(s)) \X (1..Len(s)) :
     /\ t[1] <= t[2]
     /\ \A i \in t[1]..t[2] : s[i] \in Digits
     /\ (t[1] = 1 \/ s[t[1] - 1] \notin Digits)
     /\ (t[2] = Len(s) \/ s[t[2] + 1] \notin Digits)}

\* The tokens of 10 to 15 digits that follow a "ruc" / "nit" / "tax id"
\* label and its separators.
C8_Labelled(s) ==
  LET label == Cat(<<Alt(<<Lit(<<"r", "u", "c">>), Lit(<<"n", "i", "t">>),
                           Cat(<<Lit(<<"t", "a", "x">>), Star(Space), Lit(<<"i", "d">>)>>)>>),
                     Star(LabelSep)>>)
  IN  {t \in C8_Tokens(s) :
         /\ t[2] - t[1] + 1 \in 10..15
         /\ \E i \in 1..t[1] :
              \E m \in {MatchAt(label, FoldText(s), i)[j] :
                          j \in 1..Len(MatchAt(label, FoldText(s), i))} :
                m.e = t[1]}

C8_First(ts) == CHOOSE t \in ts : \A u \in ts : t[1] <= u[1]

\* C8: ruc_nit is the labelled token of 10 to 15 digits when there is one,
\* else the first token of exactly 11 digits, else empty.
C8_TaxIdToken ==
  Extracted =>
    LET s      == ret.elems[2]
        eleven == {t \in C8_Tokens(s) : t[2] - t[1] + 1 = 11}
        token  == IF C8_Labelled(s) # {} THEN C8_First(C8_Labelled(s))
                  ELSE IF eleven # {} THEN C8_First(eleven)
                  ELSE <<>>
    IN  ret.elems[1].ruc_nit =
          IF token = <<>> THEN <<>> ELSE SubSeq(s, token[1], token[2])

(***************************************************************************)
(* Properties of the script (under Spec)                                   *)
(***************************************************************************)

HasError == \E k \in 1..Len(messages) : messages[k].level = "error"

\* Something upstream of the extraction failed: the image cannot be read,
\* the credentials are missing, a request failed, the analysis failed, or
\* the service's answer lacks what the code reads from it.
C6_UpstreamFailure ==
  \/ uploaded_file = "unreadable"
  \/ img_byte_arr = "bytes" /\ ~credentials
  \/ start \in {"raised", "no_header"}
  \/ /\ result # Unset
     /\ \/ result.raised
        \/ "status" \notin result.keys
        \/ result.status = "failed"
        \/ /\ result.status = "succeeded"
           /\ \/ "analyzeResult" \notin result.keys
              \/ "readResults" \notin result.analyzeResult.keys

\* C6: no failure ends in an uncaught exception; after one the OCR call has
\* returned None and an error box is shown, and nothing is unpacked or
\* displayed; and what extract_invoice_data returns to the main flow
\* unpacks into (invoice_data, full_text).
C6_FailuresReported ==
  /\ exception = "none"
  /\ (ret # Unset => CanUnpack2(ret))
  /\ (pc \in {"returned", "done"} /\ C6_UpstreamFailure =>
        /\ ocr_result.none
        /\ HasError
        /\ invoice_data = Unset
        /\ shown = Unset)

\* The object a JSON text of members decodes to.
C9_Loads(json) ==
  [key \in {json[k].key : k \in 1..Len(json)} |->
     json[CHOOSE k \in 1..Len(json) : json[k].key = key].value]

\* C9: once display_invoice_data ran, at most 5 items are shown, the main
\* flow's record is still the one extract_invoice_data returned, and the
\* JSON offered for download decodes to that record, items in full.
C9_DisplayKeepsRecord ==
  shown # Unset =>
    /\ Len(shown.items) <= 5
    /\ invoice_data = ret.elems[1]
    /\ (pc = "done" =>
          /\ json_data # Unset
          /\ C9_Loads(json_data) = ret.elems[1]
          /\ C9_Loads(json_data).items = ret.elems[1].items)

\* A record of more than 5 items was displayed (5 shown) and exported.
C9_Witness ==
  /\ pc = "done"
  /\ shown # Unset
  /\ Len(shown.items) = 5
  /\ json_data # Unset
  /\ Len(ret.elems[1].items) > 5

\* The answer of a GET carries a status other than "succeeded" / "failed".
C10_Unfinished(answer) ==
  /\ ~answer.raised
  /\ "status" \in answer.keys
  /\ answer.status \notin {"succeeded", "failed"}

\* C10: a turn of the polling loop stays in the loop whenever the answer is
\* unfinished, however many such answers came before; the call returns only
\* on "succeeded" (with analyzeResult), on "failed" (None) or on a failed
\* request (None); any other way out is an exception.
C10_PollsUntilFinished ==
  [][pc = "poll" =>
       /\ C10_Unfinished(result') => pc' = "poll"
       /\ pc' = "returned" =>
            \/ /\ ~result'.raised
               /\ result'.status = "succeeded"
               /\ ocr_result' = result'.analyzeResult
            \/ /\ ~result'.raised
               /\ result'.status = "failed"
               /\ ocr_result' = PyNone
            \/ /\ result'.raised
               /\ ocr_result' = PyNone
       /\ pc' \in {"poll", "returned", "crashed"}
       /\ pc' = "crashed" <=> exception' # "none"]_vars

\* The loop is still running after MaxPolls unfinished answers.
C10_Witness ==
  /\ pc = "poll"
  /\ polls = MaxPolls
  /\ C10_Unfinished(result)

====
